---- MODULE Spec2Model ----
(***************************************************************************)
(* The speaker-tag store of the TTS tester (gui/services/speaker_service.py)*)
(* and the file it persists to, as a state machine.                         *)
(*                                                                          *)
(* A Python dict is a function whose DOMAIN is the dict's key set; a list   *)
(* is a sequence; a set is a set.  A JSON object read from the file lists   *)
(* its keys in the order of KeyOrder (the model does not vary the key order *)
(* of the input file), and a JSON list of tags holds no tag twice.          *)
(***************************************************************************)
EXTENDS Integers, Sequences, FiniteSets, TLC

VARIABLES
    speaker_tags,       \* self.speaker_tags: model -> speaker -> set of tags
    tag_definitions,    \* self.tag_definitions: tag -> {description, color, speakers}
    downloaded_models,  \* self.downloaded_models: set of model names
    available_models,   \* self.available_models: list of model names
    tags_file,          \* the file at self.tags_file: [kind, data]
    last,               \* the last operation called, its arguments and its result
    nops,               \* number of operations called so far
    gui,                \* the GUI thread: where it is in a handler of TTSTesterGUI
    bg,                 \* the thread started by on_model_change: where it is
    tts_engine,         \* TTSService.tts_engine: "None" or the model of the engine
    current_model,      \* TTSService.current_model: "None" or a model name
    output_file,        \* whether a file exists at the output_path of synthesize_text
    coqui_speakers,     \* TTSTesterGUI.coqui_speakers: the speakers of the loaded model
    dialog              \* the SpeakerTagDialog: whether it is shown, and its result

\* The TTSService and the file it writes.
tts_vars == <<tts_engine, current_model, output_file>>

vars == <<speaker_tags, tag_definitions, downloaded_models, available_models,
          tags_file, last, nops, gui, bg, tts_vars, coqui_speakers, dialog>>

(***************************************************************************)
(* Bounds and input domains.                                               *)
(***************************************************************************)
MaxOps == 2

Models == {"m1", "m2"}
Speakers == {"s1", "s2"}
Tags == {"t1", "t2"}

\* Arguments a caller may pass: the names above, or the empty string.
ModelArgs == Models \cup {""}
SpeakerArgs == Speakers \cup {""}
TagArgs == Tags \cup {""}

\* The order in which the keys of a JSON object of the input file are listed.
KeyOrder == <<"m1", "m2", "s1", "s2", "t1", "t2", "_metadata", "_models", "_tags",
              "version", "description", "color", "speakers", "downloaded", "available",
              "speaker_tags", "null">>

(***************************************************************************)
(* Dicts, lists and strings.                                               *)
(***************************************************************************)
EmptyDict == <<>>

Range(seq) == {seq[i] : i \in DOMAIN seq}

Get(d, k, default) == IF k \in DOMAIN d THEN d[k] ELSE default

Put(d, k, v) == [x \in (DOMAIN d) \cup {k} |-> IF x = k THEN v ELSE d[x]]

Del(d, k) == [x \in (DOMAIN d) \ {k} |-> d[x]]

Pos(x) == CHOOSE i \in DOMAIN KeyOrder : KeyOrder[i] = x

RECURSIVE InKeyOrder(_)
InKeyOrder(S) ==
    IF S = {} THEN <<>>
    ELSE LET x == CHOOSE x \in S : \A y \in S : Pos(x) <= Pos(y)
         IN  <<x>> \o InKeyOrder(S \ {x})

\* list.remove(x): drops the first occurrence of x.
RECURSIVE ListRemove(_, _)
ListRemove(seq, x) ==
    IF seq = <<>> THEN <<>>
    ELSE IF Head(seq) = x THEN Tail(seq)
    ELSE <<Head(seq)>> \o ListRemove(Tail(seq), x)

\* list(a_set): the elements in some order.
ListsOf(S) ==
    {seq \in [1..Cardinality(S) -> S] : Range(seq) = S}

\* f"Tag: {tag}"
DefaultDescription(tag) == "Tag: " \o tag

DefaultColor == "#808080"

MetadataVersion == "1.3"
MetadataDescription ==
    "TTS Tester data with tag-centric organization - one tag to many models/speakers"

\* set(s) for a string s: its characters.
Chars(s) ==
    CASE s = "1.3" -> {"1", ".", "3"}
      [] s = "1.2" -> {"1", ".", "2"}
      [] s = "1.1" -> {"1", "."}
      [] s = MetadataDescription ->
            {"T", "S", " ", "-", "/", "a", "c", "d", "e", "g", "h", "i", "k", "l",
             "m", "n", "o", "p", "r", "s", "t", "w", "y", "z"}
      [] OTHER -> {}

(***************************************************************************)
(* The store: the four attributes of a SpeakerService.                     *)
(***************************************************************************)
Store(st, td, dl, av) ==
    [speaker_tags |-> st, tag_definitions |-> td,
     downloaded_models |-> dl, available_models |-> av]

EmptyStore == Store(EmptyDict, EmptyDict, {}, <<>>)

\* The loops "for model_name, speakers in ...: for speaker, tags in ...:
\* self.speaker_tags[model_name][speaker] = set(tags)".
SpeakerTagsOf(speakers_data) ==
    [m \in DOMAIN speakers_data |->
        [s \in DOMAIN speakers_data[m] |-> Range(speakers_data[m][s])]]

\* all_tags: every tag some speaker of speaker_tags carries.
AllTagsOf(st) ==
    UNION {UNION {st[m][s] : s \in DOMAIN st[m]} : m \in DOMAIN st}

\* The loops that append each speaker to tag_definitions[tag]["speakers"][model]:
\* the per-model speaker lists of `tag`, speakers in the order of the dict.
SpeakerListsOf(st, tag) ==
    LET ms == {m \in DOMAIN st : \E s \in DOMAIN st[m] : tag \in st[m][s]}
    IN  [m \in ms |-> InKeyOrder({s \in DOMAIN st[m] : tag \in st[m][s]})]

\* "Build speaker_tags for backward compatibility" of the v1.3 branch.
SpeakerTagsFromDefinitions(td) ==
    LET spk(t) == Get(td[t], "speakers", EmptyDict)
        ms == UNION {DOMAIN spk(t) : t \in DOMAIN td}
        ss(m) == UNION {Range(spk(t)[m]) : t \in {t \in DOMAIN td : m \in DOMAIN spk(t)}}
    IN  [m \in ms |->
            [s \in ss(m) |->
                {t \in DOMAIN td : m \in DOMAIN spk(t) /\ s \in Range(spk(t)[m])}]]

DefaultDefinition(tag) ==
    [description |-> DefaultDescription(tag), color |-> DefaultColor,
     speakers |-> EmptyDict]

\* The v1.3 branch: the file's _tags become tag_definitions as they are.
LoadV13(data) ==
    LET models_data == Get(data, "_models", EmptyDict)
    IN  Store(SpeakerTagsFromDefinitions(data["_tags"]),
              data["_tags"],
              Range(Get(models_data, "downloaded", <<>>)),
              Get(models_data, "available", <<>>))

\* The v1.2 branch: _tags plus _speakers (model -> speaker -> list of tags).
LoadV12(data) ==
    LET st == SpeakerTagsOf(data["_speakers"])
        models_data == Get(data, "_models", EmptyDict)
    IN  Store(st,
              [t \in DOMAIN data["_tags"] |->
                  Put(data["_tags"][t], "speakers", SpeakerListsOf(st, t))],
              Range(Get(models_data, "downloaded", <<>>)),
              Get(models_data, "available", <<>>))

\* The v1.1 branch: speaker_tags (model -> speaker -> list of tags).
LoadV11(data) ==
    LET st == SpeakerTagsOf(data["speaker_tags"])
        models_data == Get(data, "_models", EmptyDict)
    IN  Store(st,
              [t \in AllTagsOf(st) |->
                  Put(DefaultDefinition(t), "speakers", SpeakerListsOf(st, t))],
              Range(Get(models_data, "downloaded", <<>>)),
              Get(models_data, "available", <<>>))

\* What "for speaker, tags in speakers.items(): ... set(tags)" makes of the value
\* of a top-level key in the legacy branch, which walks every key of the file.
LegacySpeakers(key, value) ==
    IF key = "_metadata" THEN [f \in DOMAIN value |-> Chars(value[f])]
    ELSE IF key = "_models" THEN [f \in DOMAIN value |-> Range(value[f])]
    ELSE IF key = "_tags" THEN [t \in DOMAIN value |-> DOMAIN value[t]]
    ELSE [s \in DOMAIN value |-> Range(value[s])]

\* The final else branch ("Legacy format").
LoadLegacy(data) ==
    LET st == [k \in DOMAIN data |-> LegacySpeakers(k, data[k])]
    IN  Store(st,
              [t \in AllTagsOf(st) |->
                  Put(DefaultDefinition(t), "speakers", SpeakerListsOf(st, t))],
              DOMAIN st,
              InKeyOrder(DOMAIN st))

\* The branch of load_speaker_tags that the content of the file selects.
LoadBranch(data) ==
    IF "_metadata" \in DOMAIN data /\ "_tags" \in DOMAIN data
    THEN IF /\ data["_tags"] # EmptyDict
            /\ \E t \in DOMAIN data["_tags"] : "speakers" \in DOMAIN data["_tags"][t]
         THEN "v1.3"
         ELSE IF "_speakers" \in DOMAIN data THEN "v1.2"
         ELSE IF "speaker_tags" \in DOMAIN data THEN "v1.1"
         ELSE "legacy"
    ELSE "none"                                         \* the outer if has no else

\* What a call leaves and returns: the store and the value, or the exception
\* it raises.
Result(store, ret) == [store |-> store, ret |-> ret]

\* A JSON null where the conversion expects an object.  It is written as an
\* object no file of the model holds otherwise.
Null == [null |-> <<>>]

HasNull(d) == \E k \in DOMAIN d : d[k] = Null

\* The first key of `d`, in the order of the file, that holds a null.
FirstNull(d) ==
    CHOOSE k \in DOMAIN d :
        d[k] = Null /\ \A o \in DOMAIN d : d[o] = Null => Pos(k) <= Pos(o)

\* The keys of `d` that the loop over d.items() has passed when it meets the null.
BeforeNull(d) == {k \in DOMAIN d : Pos(k) < Pos(FirstNull(d))}

\* A file whose _tags holds a null: any("speakers" in tag_data ...) raises
\* TypeError at the null unless a tag before it has "speakers"; then the v1.3
\* branch assigns tag_definitions and the model lists, converts the tags before
\* the null, and tag_data.get raises AttributeError at the null.
ConvertedNullTag(store, data) ==
    LET tags == data["_tags"]
        done == BeforeNull(tags)
        models_data == Get(data, "_models", EmptyDict)
    IN  IF \E t \in done : "speakers" \in DOMAIN tags[t]
        THEN Result(Store(SpeakerTagsFromDefinitions([t \in done |-> tags[t]]),
                          tags,
                          Range(Get(models_data, "downloaded", <<>>)),
                          Get(models_data, "available", <<>>)),
                    "AttributeError")
        ELSE Result(store, "TypeError")

\* A v1.1 file whose speaker_tags holds a null for a model: the models before
\* it are converted, the model gets an empty dict, and speakers.items() raises.
ConvertedNullModel(store, data) ==
    LET done == BeforeNull(data["speaker_tags"])
        st == SpeakerTagsOf([m \in done |-> data["speaker_tags"][m]])
    IN  Result([store EXCEPT !.speaker_tags =
                   Put(st, FirstNull(data["speaker_tags"]), EmptyDict)],
               "AttributeError")

\* The body of the try statement for a file that exists: the store it leaves
\* and "None", or the store at the moment it raises and the exception.
Converted(store, file) ==
    IF file.kind = "corrupt" THEN Result(store, "JSONDecodeError")
    ELSE IF LoadBranch(file.data) = "none" THEN Result(store, "None")
    ELSE IF HasNull(file.data["_tags"]) THEN ConvertedNullTag(store, file.data)
    ELSE IF LoadBranch(file.data) = "v1.1" /\ HasNull(file.data["speaker_tags"])
    THEN ConvertedNullModel(store, file.data)
    ELSE Result(CASE LoadBranch(file.data) = "v1.3" -> LoadV13(file.data)
                  [] LoadBranch(file.data) = "v1.2" -> LoadV12(file.data)
                  [] LoadBranch(file.data) = "v1.1" -> LoadV11(file.data)
                  [] OTHER -> LoadLegacy(file.data),
                "None")

\* A load whose except clause reports the error and resets nothing.
LoadStoreNoReset(store, file) ==
    IF file.kind = "absent" THEN EmptyStore ELSE Converted(store, file).store

\* load_speaker_tags: the store after loading `file` into `store`.
LoadStore(store, file) ==
    IF file.kind = "absent" THEN EmptyStore
    ELSE IF Converted(store, file).ret # "None" THEN EmptyStore   \* except Exception
    ELSE Converted(store, file).store

\* A save that writes each definition as the store holds it.
SavedTagAsKept(tag_name, tag_data) == tag_data

\* What save_speaker_tags writes for one tag.
SavedTag(tag_name, tag_data) ==
    [description |-> Get(tag_data, "description", DefaultDescription(tag_name)),
     color |-> Get(tag_data, "color", DefaultColor),
     speakers |-> Get(tag_data, "speakers", EmptyDict)]

\* The document save_speaker_tags writes; `downloaded` is list(downloaded_models).
SavedData(store, downloaded) ==
    ("_metadata" :> [version |-> MetadataVersion, description |-> MetadataDescription])
 @@ ("_models" :> [downloaded |-> downloaded, available |-> store.available_models])
 @@ ("_tags" :> [t \in DOMAIN store.tag_definitions |->
                    SavedTag(t, store.tag_definitions[t])])

JsonFile(data) == [kind |-> "json", data |-> data]
NoFile == [kind |-> "absent", data |-> EmptyDict]
CorruptFile == [kind |-> "corrupt", data |-> EmptyDict]

(***************************************************************************)
(* The operations of SpeakerService, each as the store it leaves and the   *)
(* value it returns ("KeyError" when it raises that).                      *)
(***************************************************************************)
get_speaker_tags(store, model_name, speaker) ==
    IF model_name \in DOMAIN store.speaker_tags
       /\ speaker \in DOMAIN store.speaker_tags[model_name]
    THEN store.speaker_tags[model_name][speaker]
    ELSE {}

get_all_tags(store) == DOMAIN store.tag_definitions

get_speakers_by_tag(store, tag_name) ==
    IF tag_name \in DOMAIN store.tag_definitions
    THEN Get(store.tag_definitions[tag_name], "speakers", EmptyDict)
    ELSE EmptyDict

\* A get_tagged_speakers that lists every speaker the model holds.
get_tagged_speakers_all(store, model_name) ==
    IF model_name \in DOMAIN store.speaker_tags
    THEN InKeyOrder(DOMAIN store.speaker_tags[model_name])
    ELSE <<>>

get_tagged_speakers(store, model_name) ==
    IF model_name \in DOMAIN store.speaker_tags
    THEN InKeyOrder({speaker \in DOMAIN store.speaker_tags[model_name] :
                        store.speaker_tags[model_name][speaker] # {}})
    ELSE <<>>

get_untagged_speakers(store, model_name, all_speakers) ==
    LET tagged_speakers == Range(get_tagged_speakers(store, model_name))
        untagged(speaker) == speaker \notin tagged_speakers
    IN  SelectSeq(all_speakers, untagged)

\* list(self.downloaded_models): the lists it may return, a set having no order.
get_downloaded_models(store) == ListsOf(store.downloaded_models)

\* A get_undownloaded_models that does not look at the downloaded set.
get_undownloaded_models_all(store) == store.available_models

get_undownloaded_models(store) ==
    LET undownloaded(model) == model \notin store.downloaded_models
    IN  SelectSeq(store.available_models, undownloaded)

\* add_tag_to_speaker past its first check.
AddTag(store, model_name, speaker, tag) ==
    LET st0 == store.speaker_tags
        st1 == IF model_name \notin DOMAIN st0 THEN Put(st0, model_name, EmptyDict) ELSE st0
        st2 == IF speaker \notin DOMAIN st1[model_name]
               THEN Put(st1, model_name, Put(st1[model_name], speaker, {}))
               ELSE st1
        st3 == Put(st2, model_name,
                   Put(st2[model_name], speaker, st2[model_name][speaker] \cup {tag}))
        td0 == store.tag_definitions
        td1 == IF tag \notin DOMAIN td0 THEN Put(td0, tag, DefaultDefinition(tag)) ELSE td0
    IN  IF "speakers" \notin DOMAIN td1[tag]
        THEN Result([store EXCEPT !.speaker_tags = st3, !.tag_definitions = td1], "KeyError")
        ELSE
        LET sp0 == td1[tag]["speakers"]
            sp1 == IF model_name \notin DOMAIN sp0 THEN Put(sp0, model_name, <<>>) ELSE sp0
            sp2 == IF speaker \notin Range(sp1[model_name])
                   THEN Put(sp1, model_name, Append(sp1[model_name], speaker))
                   ELSE sp1
        IN  Result([store EXCEPT !.speaker_tags = st3,
                                 !.tag_definitions = Put(td1, tag, Put(td1[tag], "speakers", sp2))],
                   "True")

\* An add_tag_to_speaker whose first check leaves out the tag.
add_tag_to_speaker_unchecked_tag(store, model_name, speaker, tag) ==
    IF model_name = "" \/ speaker = "" THEN Result(store, "False")
    ELSE AddTag(store, model_name, speaker, tag)

add_tag_to_speaker(store, model_name, speaker, tag) ==
    IF model_name = "" \/ speaker = "" \/ tag = "" THEN Result(store, "False")
    ELSE AddTag(store, model_name, speaker, tag)

remove_tag_from_speaker(store, model_name, speaker, tag) ==
    LET st0 == store.speaker_tags
        td0 == store.tag_definitions
    IN
    IF /\ model_name \in DOMAIN st0
       /\ speaker \in DOMAIN st0[model_name]
       /\ tag \in st0[model_name][speaker]
    THEN
        LET st1 == Put(st0, model_name,
                       Put(st0[model_name], speaker, st0[model_name][speaker] \ {tag}))
        IN
        IF tag \notin DOMAIN td0
        THEN Result([store EXCEPT !.speaker_tags = st1], "True")
        ELSE IF "speakers" \notin DOMAIN td0[tag]
        THEN Result([store EXCEPT !.speaker_tags = st1], "KeyError")
        ELSE
        LET sp0 == td0[tag]["speakers"]
            sp1 == IF model_name \in DOMAIN sp0 /\ speaker \in Range(sp0[model_name])
                   THEN LET lst == ListRemove(sp0[model_name], speaker)
                        IN  IF lst = <<>> THEN Del(sp0, model_name)
                            ELSE Put(sp0, model_name, lst)
                   ELSE sp0
        IN  Result([store EXCEPT !.speaker_tags = st1,
                                 !.tag_definitions = Put(td0, tag, Put(td0[tag], "speakers", sp1))],
                   "True")
    ELSE Result(store, "False")

remove_speaker(store, model_name, speaker) ==
    IF model_name \in DOMAIN store.speaker_tags
       /\ speaker \in DOMAIN store.speaker_tags[model_name]
    THEN Result([store EXCEPT !.speaker_tags =
                    Put(store.speaker_tags, model_name,
                        Del(store.speaker_tags[model_name], speaker))], "True")
    ELSE Result(store, "False")

remove_model(store, model_name) ==
    IF model_name \in DOMAIN store.speaker_tags
    THEN Result([store EXCEPT !.speaker_tags = Del(store.speaker_tags, model_name)], "True")
    ELSE Result(store, "False")

mark_model_downloaded(store, model_name) ==
    IF model_name \notin store.downloaded_models
    THEN Result([store EXCEPT !.downloaded_models = @ \cup {model_name}], "True")
    ELSE Result(store, "False")

\* An unmarking that empties the set instead of discarding one name.
mark_model_not_downloaded_clear(store, model_name) ==
    IF model_name \in store.downloaded_models
    THEN Result([store EXCEPT !.downloaded_models = {}], "True")
    ELSE Result(store, "False")

mark_model_not_downloaded(store, model_name) ==
    IF model_name \in store.downloaded_models
    THEN Result([store EXCEPT !.downloaded_models = @ \ {model_name}], "True")
    ELSE Result(store, "False")

is_model_downloaded(store, model_name) == model_name \in store.downloaded_models

update_available_models(store, models) ==
    Result([store EXCEPT !.available_models = models], "None")

add_tag_definition(store, tag_name, description, color) ==
    Result([store EXCEPT !.tag_definitions =
               Put(store.tag_definitions, tag_name,
                   [description |-> description, color |-> color, speakers |-> EmptyDict])],
           "None")

\* A remove_tag_definition that deletes the definition and leaves the speakers.
remove_tag_definition_only(store, tag_name) ==
    IF tag_name \in DOMAIN store.tag_definitions
    THEN Result([store EXCEPT !.tag_definitions = Del(store.tag_definitions, tag_name)],
                "True")
    ELSE Result(store, "False")

remove_tag_definition(store, tag_name) ==
    IF tag_name \in DOMAIN store.tag_definitions
    THEN Result([store EXCEPT
                    !.tag_definitions = Del(store.tag_definitions, tag_name),
                    !.speaker_tags =
                        [m \in DOMAIN store.speaker_tags |->
                            [s \in DOMAIN store.speaker_tags[m] |->
                                store.speaker_tags[m][s] \ {tag_name}]]],
                "True")
    ELSE Result(store, "False")

\* update_tag_definition with color left None.
update_tag_definition(store, tag_name, description) ==
    IF tag_name \in DOMAIN store.tag_definitions
    THEN Result([store EXCEPT !.tag_definitions =
                    Put(store.tag_definitions, tag_name,
                        Put(store.tag_definitions[tag_name], "description", description))],
                "None")
    ELSE Result(store, "None")

(***************************************************************************)
(* The files a SpeakerService may find at tags_file when it is constructed. *)
(***************************************************************************)
\* The (model, speaker, tag) associations an input file may hold.
FileAssocs == {<<"m1", "s1", "t1">>, <<"m1", "s2", "t1">>, <<"m2", "s1", "t2">>}

AssocSets == SUBSET FileAssocs

TagsIn(T) == {a[3] : a \in T}

\* model -> speaker -> list of tags, as the v1.2, v1.1 and legacy shapes hold it.
AssocData(T) ==
    [m \in {a[1] : a \in T} |->
        [s \in {a[2] : a \in {a \in T : a[1] = m}} |->
            InKeyOrder({a[3] : a \in {a \in T : a[1] = m /\ a[2] = s}})]]

\* A tag's entry under _tags: with or without the text fields, with or without
\* the "speakers" field.
FileTag(t, T, text, with_speakers) ==
    LET txt == IF text THEN [description |-> DefaultDescription(t), color |-> DefaultColor]
               ELSE EmptyDict
    IN  IF with_speakers
        THEN Put(txt, "speakers", SpeakerListsOf(SpeakerTagsOf(AssocData(T)), t))
        ELSE txt

FileModels == [downloaded |-> <<"m1">>, available |-> <<"m1", "m2">>]

\* _metadata, _models and _tags; the tags of N have no "speakers" field.
V13File(T, D, N, text) ==
    JsonFile(("_metadata" :> [version |-> "1.3"])
          @@ ("_models" :> FileModels)
          @@ ("_tags" :> [t \in D |-> FileTag(t, T, text, t \notin N)]))

V13Files ==
    {V13File(c.T, c.D, c.N, c.text) :
       c \in {c \in [T : AssocSets, D : SUBSET Tags, N : SUBSET Tags, text : BOOLEAN] :
                /\ TagsIn(c.T) \subseteq c.D
                /\ c.N \subseteq c.D \ TagsIn(c.T)}}

\* _metadata, _models, _tags (the tags of D, without speakers) and _speakers.
V12Files ==
    {JsonFile(("_metadata" :> [version |-> "1.2"])
           @@ ("_models" :> FileModels)
           @@ ("_tags" :> [t \in c.D |-> FileTag(t, c.T, TRUE, FALSE)])
           @@ ("_speakers" :> AssocData(c.T))) :
       c \in [T : AssocSets, D : SUBSET Tags]}

\* _metadata and speaker_tags, with an empty _tags or none.
V11Files ==
    {JsonFile(("_metadata" :> [version |-> "1.1"])
           @@ (IF c.tags THEN ("_tags" :> EmptyDict) ELSE EmptyDict)
           @@ ("speaker_tags" :> AssocData(c.T))) :
       c \in [T : AssocSets, tags : BOOLEAN]}

\* The bare mapping model -> speaker -> list of tags.
LegacyFiles == {JsonFile(AssocData(T)) : T \in AssocSets}

\* Files that hold a null where an object belongs: a tag of _tags after or
\* before a tag with speakers, and a model of the v1.1 speaker_tags.
NullFiles ==
    {JsonFile(("_metadata" :> [version |-> "1.3"])
           @@ ("_models" :> FileModels)
           @@ ("_tags" :> Put([t \in {"t1"} |->
                                  FileTag(t, {<<"m1", "s1", "t1">>}, TRUE, TRUE)],
                              "t2", Null))),
     JsonFile(("_metadata" :> [version |-> "1.3"])
           @@ ("_models" :> FileModels)
           @@ ("_tags" :> Put([t \in {"t2"} |->
                                  FileTag(t, {<<"m2", "s1", "t2">>}, TRUE, TRUE)],
                              "t1", Null))),
     JsonFile(("_metadata" :> [version |-> "1.1"])
           @@ ("_tags" :> EmptyDict)
           @@ ("speaker_tags" :> Put(AssocData({<<"m1", "s1", "t1">>}), "m2", Null)))}

InputFiles ==
    {NoFile, CorruptFile} \cup V13Files \cup V12Files \cup V11Files \cup LegacyFiles
    \cup NullFiles

(***************************************************************************)
(* The state machine: a SpeakerService and the calls made on it.           *)
(***************************************************************************)
Cur == Store(speaker_tags, tag_definitions, downloaded_models, available_models)

\* The store after a step.
After == Store(speaker_tags', tag_definitions', downloaded_models', available_models')

Called(op, model_name, speaker, tag, ret) ==
    [op |-> op, model |-> model_name, speaker |-> speaker, tag |-> tag, ret |-> ret]

\* The store becomes r.store, and the call is recorded.
Becomes(r, op, model_name, speaker, tag) ==
    /\ speaker_tags' = r.store.speaker_tags
    /\ tag_definitions' = r.store.tag_definitions
    /\ downloaded_models' = r.store.downloaded_models
    /\ available_models' = r.store.available_models
    /\ last' = Called(op, model_name, speaker, tag, r.ret)
    /\ nops' = nops + 1

\* A thread: where it is, the model it loads, and the `data` it has built in
\* save_speaker_tags and not yet written.
Thread(pc, model_name, data) == [pc |-> pc, model |-> model_name, data |-> data]

\* No SpeakerTagDialog has been constructed.
NoDialog == [shown |-> FALSE, result |-> FALSE]

\* __init__: empty attributes, then load_speaker_tags.
Init ==
    /\ tags_file \in InputFiles
    /\ speaker_tags = LoadStore(EmptyStore, tags_file).speaker_tags
    /\ tag_definitions = LoadStore(EmptyStore, tags_file).tag_definitions
    /\ downloaded_models = LoadStore(EmptyStore, tags_file).downloaded_models
    /\ available_models = LoadStore(EmptyStore, tags_file).available_models
    /\ last = Called("__init__", "-", "-", "-", "None")
    /\ nops = 0
    /\ gui = Thread("idle", "-", EmptyDict)
    /\ bg = Thread("none", "-", EmptyDict)
    /\ tts_engine = "None"
    /\ current_model = "None"
    /\ output_file = FALSE
    /\ coqui_speakers = <<>>
    /\ dialog = NoDialog

LoadSpeakerTags ==
    /\ nops < MaxOps
    /\ UNCHANGED <<gui, bg, tts_vars, coqui_speakers, dialog>>
    /\ Becomes(Result(LoadStore(Cur, tags_file), "None"), "load_speaker_tags", "-", "-", "-")
    /\ UNCHANGED tags_file

SaveSpeakerTags ==
    /\ nops < MaxOps
    /\ UNCHANGED <<gui, bg, tts_vars, coqui_speakers, dialog>>
    /\ \E downloaded \in ListsOf(downloaded_models) :
          tags_file' = JsonFile(SavedData(Cur, downloaded))
    /\ Becomes(Result(Cur, "None"), "save_speaker_tags", "-", "-", "-")

AddTagToSpeaker ==
    /\ nops < MaxOps
    /\ UNCHANGED <<gui, bg, tts_vars, coqui_speakers, dialog>>
    /\ \E m \in ModelArgs, s \in SpeakerArgs, t \in TagArgs :
          Becomes(add_tag_to_speaker(Cur, m, s, t), "add_tag_to_speaker", m, s, t)
    /\ UNCHANGED tags_file

RemoveTagFromSpeaker ==
    /\ nops < MaxOps
    /\ UNCHANGED <<gui, bg, tts_vars, coqui_speakers, dialog>>
    /\ \E m \in Models, s \in Speakers, t \in Tags :
          Becomes(remove_tag_from_speaker(Cur, m, s, t), "remove_tag_from_speaker", m, s, t)
    /\ UNCHANGED tags_file

RemoveSpeaker ==
    /\ nops < MaxOps
    /\ UNCHANGED <<gui, bg, tts_vars, coqui_speakers, dialog>>
    /\ \E m \in Models, s \in Speakers :
          Becomes(remove_speaker(Cur, m, s), "remove_speaker", m, s, "-")
    /\ UNCHANGED tags_file

RemoveModel ==
    /\ nops < MaxOps
    /\ UNCHANGED <<gui, bg, tts_vars, coqui_speakers, dialog>>
    /\ \E m \in Models :
          Becomes(remove_model(Cur, m), "remove_model", m, "-", "-")
    /\ UNCHANGED tags_file

MarkModelDownloaded ==
    /\ nops < MaxOps
    /\ UNCHANGED <<gui, bg, tts_vars, coqui_speakers, dialog>>
    /\ \E m \in Models :
          Becomes(mark_model_downloaded(Cur, m), "mark_model_downloaded", m, "-", "-")
    /\ UNCHANGED tags_file

MarkModelNotDownloaded ==
    /\ nops < MaxOps
    /\ UNCHANGED <<gui, bg, tts_vars, coqui_speakers, dialog>>
    /\ \E m \in Models :
          Becomes(mark_model_not_downloaded(Cur, m), "mark_model_not_downloaded", m, "-", "-")
    /\ UNCHANGED tags_file

\* The lists of models the TTS library may report.
ModelLists == {<<>>, <<"m1">>, <<"m1", "m2">>, <<"m2", "m1">>}

UpdateAvailableModels ==
    /\ nops < MaxOps
    /\ UNCHANGED <<gui, bg, tts_vars, coqui_speakers, dialog>>
    /\ \E models \in ModelLists :
          Becomes(update_available_models(Cur, models), "update_available_models", "-", "-", "-")
    /\ UNCHANGED tags_file

\* The callers pass f"Tag: {tag_name}" and "#808080".
AddTagDefinition ==
    /\ nops < MaxOps
    /\ UNCHANGED <<gui, bg, tts_vars, coqui_speakers, dialog>>
    /\ \E t \in Tags :
          Becomes(add_tag_definition(Cur, t, DefaultDescription(t), DefaultColor),
                  "add_tag_definition", "-", "-", t)
    /\ UNCHANGED tags_file

RemoveTagDefinition ==
    /\ nops < MaxOps
    /\ UNCHANGED <<gui, bg, tts_vars, coqui_speakers, dialog>>
    /\ \E t \in Tags :
          Becomes(remove_tag_definition(Cur, t), "remove_tag_definition", "-", "-", t)
    /\ UNCHANGED tags_file

UpdateTagDefinition ==
    /\ nops < MaxOps
    /\ UNCHANGED <<gui, bg, tts_vars, coqui_speakers, dialog>>
    /\ \E t \in Tags :
          Becomes(update_tag_definition(Cur, t, "d"), "update_tag_definition", "-", "-", t)
    /\ UNCHANGED tags_file

Next ==
    \/ LoadSpeakerTags
    \/ SaveSpeakerTags
    \/ AddTagToSpeaker
    \/ RemoveTagFromSpeaker
    \/ RemoveSpeaker
    \/ RemoveModel
    \/ MarkModelDownloaded
    \/ MarkModelNotDownloaded
    \/ UpdateAvailableModels
    \/ AddTagDefinition
    \/ RemoveTagDefinition
    \/ UpdateTagDefinition

Spec == Init /\ [][Next]_vars

(***************************************************************************)
(* Views of the store used by the properties.                              *)
(***************************************************************************)
IsLoad(call) == call.op \in {"__init__", "load_speaker_tags"}

\* The (model, speaker, tag) associations held in tag_definitions.
AssocsOfDefinitions(td) ==
    UNION {UNION {{<<m, td[t]["speakers"][m][i], t>> : i \in DOMAIN td[t]["speakers"][m]} :
                    m \in DOMAIN td[t]["speakers"]} :
             t \in {t \in DOMAIN td : "speakers" \in DOMAIN td[t]}}

\* The (model, speaker, tag) associations held in speaker_tags.
AssocsOfSpeakerTags(st) ==
    UNION {UNION {{<<m, s, t>> : t \in st[m][s]} : s \in DOMAIN st[m]} : m \in DOMAIN st}

\* The shapes of a file as the format's versions describe them.
IsTagCentric(data) ==
    /\ "_metadata" \in DOMAIN data
    /\ "_tags" \in DOMAIN data
    /\ \E t \in DOMAIN data["_tags"] : "speakers" \in DOMAIN data["_tags"][t]

IsWithSpeakers(data) == "_metadata" \in DOMAIN data /\ "_speakers" \in DOMAIN data

IsWithSpeakerTags(data) == "_metadata" \in DOMAIN data /\ "speaker_tags" \in DOMAIN data

IsBareLegacy(data) == DOMAIN data \subseteq Models

(***************************************************************************)
(* C1: save_speaker_tags followed by load_speaker_tags restores the        *)
(* tag_definitions, the set of downloaded models and the available_models  *)
(* list the store had before the save, and load takes the file that save   *)
(* wrote for the tag-centric (v1.3) shape.                                 *)
(***************************************************************************)
C1_SaveLoadRoundTrip ==
    [][(last.op = "save_speaker_tags" /\ last'.op = "load_speaker_tags") =>
          /\ tag_definitions' = tag_definitions
          /\ downloaded_models' = downloaded_models
          /\ available_models' = available_models
          /\ LoadBranch(tags_file.data) = "v1.3"]_vars

(***************************************************************************)
(* C2: after a load of a file in any of the four shapes, every entry of    *)
(* tag_definitions has a "speakers" mapping and tag_definitions holds      *)
(* exactly the (model, speaker, tag) associations of speaker_tags.         *)
(***************************************************************************)
C2_LoadFoldsEveryShape ==
    (/\ IsLoad(last)
     /\ tags_file.kind = "json"
     /\ \/ IsTagCentric(tags_file.data)
        \/ IsWithSpeakers(tags_file.data)
        \/ IsWithSpeakerTags(tags_file.data)
        \/ IsBareLegacy(tags_file.data))
    => /\ \A t \in DOMAIN tag_definitions : "speakers" \in DOMAIN tag_definitions[t]
       /\ AssocsOfDefinitions(tag_definitions) = AssocsOfSpeakerTags(speaker_tags)

(***************************************************************************)
(* C3: loading a bare legacy file (model -> speaker -> list of tags, no    *)
(* _metadata) gives speaker_tags exactly the file's associations, one      *)
(* default definition per tag used, and the file's models as both the      *)
(* downloaded and the available models.                                    *)
(***************************************************************************)
C3_LegacyLoad ==
    (/\ IsLoad(last)
     /\ tags_file.kind = "json"
     /\ IsBareLegacy(tags_file.data))
    => /\ speaker_tags = SpeakerTagsOf(tags_file.data)
       /\ DOMAIN tag_definitions = AllTagsOf(SpeakerTagsOf(tags_file.data))
       /\ \A t \in DOMAIN tag_definitions :
             /\ tag_definitions[t]["description"] = DefaultDescription(t)
             /\ tag_definitions[t]["color"] = DefaultColor
       /\ downloaded_models = DOMAIN tags_file.data
       /\ Range(available_models) = DOMAIN tags_file.data

(***************************************************************************)
(* C4: save_speaker_tags writes a document with exactly the keys           *)
(* _metadata (version "1.3"), _models (downloaded, available) and _tags,   *)
(* one entry per tag definition, each with description, color and          *)
(* speakers: the store's value, or "Tag: <name>", "#808080" and an empty   *)
(* mapping where the store has none.                                       *)
(***************************************************************************)
C4_SaveWritesCurrentShape ==
    last.op = "save_speaker_tags" =>
       /\ tags_file.kind = "json"
       /\ DOMAIN tags_file.data = {"_metadata", "_models", "_tags"}
       /\ tags_file.data["_metadata"]["version"] = "1.3"
       /\ DOMAIN tags_file.data["_models"] = {"downloaded", "available"}
       /\ Range(tags_file.data["_models"]["downloaded"]) = downloaded_models
       /\ tags_file.data["_models"]["available"] = available_models
       /\ DOMAIN tags_file.data["_tags"] = DOMAIN tag_definitions
       /\ \A t \in DOMAIN tag_definitions :
             LET saved == tags_file.data["_tags"][t]
                 kept == tag_definitions[t]
             IN  /\ DOMAIN saved = {"description", "color", "speakers"}
                 /\ saved["description"] =
                       IF "description" \in DOMAIN kept THEN kept["description"]
                       ELSE DefaultDescription(t)
                 /\ saved["color"] =
                       IF "color" \in DOMAIN kept THEN kept["color"] ELSE DefaultColor
                 /\ saved["speakers"] =
                       IF "speakers" \in DOMAIN kept THEN kept["speakers"] ELSE EmptyDict

\* A save of a store in which a definition lacks its description and a
\* definition lacks its speakers.
C4_Witness ==
    /\ last.op = "save_speaker_tags"
    /\ \E t \in DOMAIN tag_definitions : "description" \notin DOMAIN tag_definitions[t]
    /\ \E t \in DOMAIN tag_definitions : "speakers" \notin DOMAIN tag_definitions[t]

(***************************************************************************)
(* C6: add_tag_to_speaker with three non-empty arguments returns True;     *)
(* afterwards the speaker has the tag, the tag is defined, and the speaker *)
(* is listed exactly once under the tag for the model; the same call made  *)
(* again leaves the store as it is.                                        *)
(***************************************************************************)
Count(seq, x) == Cardinality({i \in DOMAIN seq : seq[i] = x})

C6_AddTagToSpeaker ==
    [][(/\ last'.op = "add_tag_to_speaker"
        /\ last'.model # "" /\ last'.speaker # "" /\ last'.tag # "")
       => /\ last'.ret = "True"
          /\ last'.tag \in get_speaker_tags(After, last'.model, last'.speaker)
          /\ last'.tag \in get_all_tags(After)
          /\ last'.model \in DOMAIN get_speakers_by_tag(After, last'.tag)
          /\ Count(get_speakers_by_tag(After, last'.tag)[last'.model], last'.speaker) = 1
          /\ (last = last' => After = Cur)]_vars

(***************************************************************************)
(* C7: add_tag_to_speaker returns False and leaves speaker_tags and        *)
(* tag_definitions unchanged whenever the model name, the speaker or the   *)
(* tag is empty.                                                           *)
(***************************************************************************)
C7_AddTagRejectsEmpty ==
    [][(/\ last'.op = "add_tag_to_speaker"
        /\ (last'.model = "" \/ last'.speaker = "" \/ last'.tag = ""))
       => /\ last'.ret = "False"
          /\ speaker_tags' = speaker_tags
          /\ tag_definitions' = tag_definitions]_vars

\* A call with an empty tag alone was refused by a store that holds tags.
C7_Witness ==
    /\ last.op = "add_tag_to_speaker"
    /\ last.model # "" /\ last.speaker # "" /\ last.tag = ""
    /\ last.ret = "False"
    /\ AssocsOfSpeakerTags(speaker_tags) # {}

(***************************************************************************)
(* C8: remove_tag_from_speaker returns True exactly when the speaker has   *)
(* the tag; after True the speaker no longer has the tag and is no longer  *)
(* listed under the tag for the model, and a model whose list became empty *)
(* is gone from the tag's speakers; after False the store is unchanged.    *)
(***************************************************************************)
C8_RemoveTagFromSpeaker ==
    [][last'.op = "remove_tag_from_speaker" =>
          LET m == last'.model
              s == last'.speaker
              t == last'.tag
              before == get_speakers_by_tag(Cur, t)
              after == get_speakers_by_tag(After, t)
          IN  /\ last'.ret \in {"True", "False"}
              /\ (last'.ret = "True") <=> (t \in get_speaker_tags(Cur, m, s))
              /\ last'.ret = "True" =>
                    /\ t \notin get_speaker_tags(After, m, s)
                    /\ m \in DOMAIN after => s \notin Range(after[m])
                    /\ (m \in DOMAIN before /\ Range(before[m]) = {s}) =>
                          m \notin DOMAIN after
              /\ last'.ret = "False" => After = Cur]_vars

(***************************************************************************)
(* C9: after remove_speaker(model, speaker) returned True no tag lists the *)
(* speaker and the speaker has no tags, also after a save and a load; the  *)
(* same for every speaker of the model after remove_model(model).          *)
(***************************************************************************)
Forgotten(store, model_name, speaker) ==
    /\ get_speaker_tags(store, model_name, speaker) = {}
    /\ \A t \in get_all_tags(store) :
          model_name \in DOMAIN get_speakers_by_tag(store, t) =>
             speaker \notin Range(get_speakers_by_tag(store, t)[model_name])

SavedAndLoaded(store) ==
    {LoadStore(store, JsonFile(SavedData(store, downloaded))) :
        downloaded \in ListsOf(store.downloaded_models)}

C9_RemoveSpeakerAndModel ==
    /\ (last.op = "remove_speaker" /\ last.ret = "True") =>
          /\ Forgotten(Cur, last.model, last.speaker)
          /\ \A reloaded \in SavedAndLoaded(Cur) :
                Forgotten(reloaded, last.model, last.speaker)
    /\ (last.op = "remove_model" /\ last.ret = "True") =>
          \A s \in Speakers :
             /\ Forgotten(Cur, last.model, s)
             /\ \A reloaded \in SavedAndLoaded(Cur) : Forgotten(reloaded, last.model, s)

(***************************************************************************)
(* C10: remove_tag_definition returns True exactly when the tag is         *)
(* defined; after True the tag is not defined, no speakers are listed for  *)
(* it, no speaker of any model has it, and the definitions and the         *)
(* associations of every other tag are as before; after False the store is *)
(* unchanged.                                                              *)
(***************************************************************************)
C10_RemoveTagDefinition ==
    [][last'.op = "remove_tag_definition" =>
          LET t == last'.tag
          IN  /\ last'.ret \in {"True", "False"}
              /\ (last'.ret = "True") <=> (t \in get_all_tags(Cur))
              /\ last'.ret = "True" =>
                    /\ t \notin get_all_tags(After)
                    /\ get_speakers_by_tag(After, t) = EmptyDict
                    /\ \A m \in DOMAIN speaker_tags' : \A s \in DOMAIN speaker_tags'[m] :
                          t \notin get_speaker_tags(After, m, s)
                    /\ get_all_tags(After) = get_all_tags(Cur) \ {t}
                    /\ \A u \in get_all_tags(After) :
                          tag_definitions'[u] = tag_definitions[u]
                    /\ DOMAIN speaker_tags' = DOMAIN speaker_tags
                    /\ \A m \in DOMAIN speaker_tags :
                          /\ DOMAIN speaker_tags'[m] = DOMAIN speaker_tags[m]
                          /\ \A s \in DOMAIN speaker_tags[m] :
                                speaker_tags'[m][s] = speaker_tags[m][s] \ {t}
              /\ last'.ret = "False" => After = Cur]_vars

\* A definition was removed while another tag stays defined, and a speaker
\* is left without tags.
C10_Witness ==
    /\ last.op = "remove_tag_definition"
    /\ last.ret = "True"
    /\ AssocsOfDefinitions(tag_definitions) # {}
    /\ \E m \in DOMAIN speaker_tags : \E s \in DOMAIN speaker_tags[m] :
          speaker_tags[m][s] = {}

(***************************************************************************)
(* The application's threads.  on_model_change starts a thread that runs   *)
(* load_model_info, which calls the store; the GUI thread runs the         *)
(* handlers.  save_speaker_tags takes two steps, building `data` and       *)
(* writing the file, and another thread may run between them.  One         *)
(* load_model_info thread runs at a time.                                  *)
(***************************************************************************)
Idle == Thread("idle", "-", EmptyDict)

StoreBecomes(r) ==
    /\ speaker_tags' = r.store.speaker_tags
    /\ tag_definitions' = r.store.tag_definitions
    /\ downloaded_models' = r.store.downloaded_models
    /\ available_models' = r.store.available_models

\* self.selected_model: the model of the last on_model_change; None, which
\* add_tag_to_speaker takes like the empty string, before the first.
selected_model == IF bg.model = "-" THEN "" ELSE bg.model

\* The files the application starts from in the model of its threads: none,
\* or a file save_speaker_tags has written.
ThreadFiles ==
    {NoFile} \cup {V13File(T, TagsIn(T), {}, TRUE) : T \in AssocSets \ {{}}}

InitThreads == Init /\ tags_file \in ThreadFiles

\* on_model_change in the GUI thread: starts load_model_info for the model.
GuiOnModelChange ==
    /\ UNCHANGED <<tts_vars, coqui_speakers, dialog>>
    /\ nops < MaxOps
    /\ gui.pc = "idle"
    /\ bg.pc \in {"none", "done"}
    /\ \E m \in Models : bg' = Thread("loading", m, EmptyDict)
    /\ nops' = nops + 1
    /\ UNCHANGED <<speaker_tags, tag_definitions, downloaded_models, available_models,
                   tags_file, last, gui>>

\* quick_add_tag: add_tag_definition for a new tag, add_tag_to_speaker, and
\* then save_speaker_tags unless add_tag_to_speaker raised.
GuiQuickAddTag ==
    /\ UNCHANGED <<tts_vars, coqui_speakers, dialog>>
    /\ nops < MaxOps
    /\ gui.pc = "idle"
    /\ \E s \in SpeakerArgs, t \in Tags, new \in BOOLEAN :
          LET m == selected_model
              defined == IF new
                         THEN add_tag_definition(Cur, t, DefaultDescription(t), DefaultColor).store
                         ELSE Cur
              r == add_tag_to_speaker(defined, m, s, t)
          IN  /\ StoreBecomes(r)
              /\ last' = Called("add_tag_to_speaker", m, s, t, r.ret)
              /\ gui' = IF r.ret = "KeyError" THEN Idle ELSE Thread("save", "-", EmptyDict)
    /\ nops' = nops + 1
    /\ UNCHANGED <<tags_file, bg>>

\* quick_remove_tag: remove_tag_from_speaker, and save_speaker_tags when it
\* returned True.
GuiQuickRemoveTag ==
    /\ UNCHANGED <<tts_vars, coqui_speakers, dialog>>
    /\ nops < MaxOps
    /\ gui.pc = "idle"
    /\ \E s \in SpeakerArgs, t \in Tags :
          LET m == selected_model
              r == remove_tag_from_speaker(Cur, m, s, t)
          IN  /\ StoreBecomes(r)
              /\ last' = Called("remove_tag_from_speaker", m, s, t, r.ret)
              /\ gui' = IF r.ret = "True" THEN Thread("save", "-", EmptyDict) ELSE Idle
    /\ nops' = nops + 1
    /\ UNCHANGED <<tags_file, bg>>

\* save_speaker_tags in the GUI thread, first half: `data` is built.
GuiSaveBuild ==
    /\ UNCHANGED <<tts_vars, coqui_speakers, dialog>>
    /\ gui.pc = "save"
    /\ \E downloaded \in ListsOf(downloaded_models) :
          gui' = Thread("save_write", "-", SavedData(Cur, downloaded))
    /\ UNCHANGED <<speaker_tags, tag_definitions, downloaded_models, available_models,
                   tags_file, last, nops, bg>>

\* save_speaker_tags in the GUI thread, second half: the file is written.
GuiSaveWrite ==
    /\ UNCHANGED <<tts_vars, coqui_speakers, dialog>>
    /\ gui.pc = "save_write"
    /\ tags_file' = JsonFile(gui.data)
    /\ gui' = Idle
    /\ last' = Called("save_speaker_tags", "-", "-", "-", "None")
    /\ UNCHANGED <<speaker_tags, tag_definitions, downloaded_models, available_models,
                   nops, bg>>

\* load_model_info: TTS(model_name=model) raises, and the thread ends.
BgLoadFails ==
    /\ UNCHANGED <<tts_vars, coqui_speakers, dialog>>
    /\ bg.pc = "loading"
    /\ bg' = Thread("done", bg.model, EmptyDict)
    /\ UNCHANGED <<speaker_tags, tag_definitions, downloaded_models, available_models,
                   tags_file, last, nops, gui>>

\* load_model_info: the model is loaded; mark_model_downloaded, and the save
\* follows when it returned True.
BgMarkModelDownloaded ==
    /\ UNCHANGED <<tts_vars, coqui_speakers, dialog>>
    /\ bg.pc = "loading"
    /\ bg.model \in Models
    /\ LET r == mark_model_downloaded(Cur, bg.model)
       IN  /\ StoreBecomes(r)
           /\ last' = Called("mark_model_downloaded", bg.model, "-", "-", r.ret)
           /\ bg' = Thread(IF r.ret = "True" THEN "save" ELSE "done", bg.model, EmptyDict)
    /\ UNCHANGED <<tags_file, nops, gui>>

\* save_speaker_tags in load_model_info and in the load_coqui_models it calls,
\* first half.
BgSaveBuild ==
    /\ UNCHANGED <<tts_vars, coqui_speakers, dialog>>
    /\ bg.pc \in {"save", "reload_save"}
    /\ \E downloaded \in ListsOf(downloaded_models) :
          bg' = Thread(IF bg.pc = "save" THEN "save_write" ELSE "reload_save_write",
                       bg.model, SavedData(Cur, downloaded))
    /\ UNCHANGED <<speaker_tags, tag_definitions, downloaded_models, available_models,
                   tags_file, last, nops, gui>>

\* Second half; after its own save load_model_info calls load_coqui_models,
\* and load_coqui_models ends in on_model_change, which starts the next thread.
BgSaveWrite ==
    /\ UNCHANGED <<tts_vars, coqui_speakers, dialog>>
    /\ bg.pc \in {"save_write", "reload_save_write"}
    /\ tags_file' = JsonFile(bg.data)
    /\ IF bg.pc = "save_write"
       THEN bg' = Thread("reload", bg.model, EmptyDict)
       ELSE \E m \in (IF downloaded_models = {} THEN {bg.model} ELSE downloaded_models) :
               bg' = Thread("loading", m, EmptyDict)
    /\ last' = Called("save_speaker_tags", "-", "-", "-", "None")
    /\ UNCHANGED <<speaker_tags, tag_definitions, downloaded_models, available_models,
                   nops, gui>>

\* load_coqui_models in load_model_info: update_available_models.
BgUpdateAvailableModels ==
    /\ UNCHANGED <<tts_vars, coqui_speakers, dialog>>
    /\ bg.pc = "reload"
    /\ \E models \in ModelLists \ {<<>>} :
          StoreBecomes(update_available_models(Cur, models))
    /\ last' = Called("update_available_models", "-", "-", "-", "None")
    /\ bg' = Thread("reload_save", bg.model, EmptyDict)
    /\ UNCHANGED <<tags_file, nops, gui>>

NextThreads ==
    \/ GuiOnModelChange
    \/ GuiQuickAddTag
    \/ GuiQuickRemoveTag
    \/ GuiSaveBuild
    \/ GuiSaveWrite
    \/ BgLoadFails
    \/ BgMarkModelDownloaded
    \/ BgSaveBuild
    \/ BgSaveWrite
    \/ BgUpdateAvailableModels

SpecThreads == InitThreads /\ [][NextThreads]_vars

\* The thread is inside a call on the store: it has built `data` in
\* save_speaker_tags and has yet to write the file.
InStoreCall(thread) == thread.pc \in {"save_write", "reload_save_write"}

(***************************************************************************)
(* C5: the store and its file are used by one thread at a time: the thread *)
(* of load_model_info is never inside a call on the store while the GUI    *)
(* thread is inside one.                                                   *)
(***************************************************************************)
C5_OneThreadAtATime == ~(InStoreCall(gui) /\ InStoreCall(bg))

(***************************************************************************)
(* C11: mark_model_downloaded(m) returns True exactly when m was not       *)
(* marked and afterwards is_model_downloaded(m) is True;                   *)
(* mark_model_not_downloaded(m) returns True exactly when m was marked and *)
(* afterwards is_model_downloaded(m) is False; each changes the status of  *)
(* no other model and leaves tags and available_models unchanged; marking  *)
(* m and then unmarking it restores the previous downloaded set.           *)
(***************************************************************************)
\* What a marking or unmarking step does to the model it names and to the rest.
MarkStep(op, marked_after) ==
    last'.op = op =>
        /\ last'.ret \in {"True", "False"}
        /\ is_model_downloaded(After, last'.model) = marked_after
        /\ downloaded_models' \ {last'.model} = downloaded_models \ {last'.model}
        /\ UNCHANGED <<speaker_tags, tag_definitions, available_models>>

\* The downloaded set once the model just marked is unmarked again.
UnmarkedAgain ==
    mark_model_not_downloaded(After, last'.model).store.downloaded_models

\* C11 as stated: marking then unmarking restores the previous set, whether or
\* not the model was marked before.
C11_MarkAndUnmark ==
    [][/\ MarkStep("mark_model_downloaded", TRUE)
       /\ MarkStep("mark_model_not_downloaded", FALSE)
       /\ last'.op = "mark_model_downloaded" =>
              /\ (last'.ret = "True") <=> ~is_model_downloaded(Cur, last'.model)
              /\ UnmarkedAgain = downloaded_models
       /\ last'.op = "mark_model_not_downloaded" =>
              ((last'.ret = "True") <=> is_model_downloaded(Cur, last'.model))]_vars

\* C11 amended: marking a model that was not marked and then unmarking it
\* restores the previous downloaded set; the rest of C11 as stated.
C11_MarkAndUnmarkWhenNotMarked ==
    [][/\ MarkStep("mark_model_downloaded", TRUE)
       /\ MarkStep("mark_model_not_downloaded", FALSE)
       /\ last'.op = "mark_model_downloaded" =>
              /\ (last'.ret = "True") <=> ~is_model_downloaded(Cur, last'.model)
              /\ ~is_model_downloaded(Cur, last'.model) =>
                     UnmarkedAgain = downloaded_models
       /\ last'.op = "mark_model_not_downloaded" =>
              ((last'.ret = "True") <=> is_model_downloaded(Cur, last'.model))]_vars

\* A model was unmarked while another stays marked and tags are stored.
C11_Witness ==
    /\ last.op = "mark_model_not_downloaded"
    /\ last.ret = "True"
    /\ downloaded_models # {}
    /\ tag_definitions # EmptyDict
    /\ available_models # <<>>

(***************************************************************************)
(* The store with the calls that only read it: the operations of Next, and *)
(* get_undownloaded_models and get_untagged_speakers called in between.    *)
(***************************************************************************)
\* A call that returns a list: its name, its arguments and the list.
Asked(op, model_name, all_speakers, ret) ==
    [op |-> op, model |-> model_name, all_speakers |-> all_speakers, ret |-> ret]

\* The lists of speakers the caller passes as all_speakers.
SpeakerLists == {<<>>, <<"s1">>, <<"s1", "s2">>, <<"s2", "s1">>}

GetUndownloadedModels ==
    /\ UNCHANGED <<tts_vars, coqui_speakers, dialog>>
    /\ nops < MaxOps
    /\ last' = Asked("get_undownloaded_models", "-", <<>>, get_undownloaded_models(Cur))
    /\ nops' = nops + 1
    /\ UNCHANGED <<speaker_tags, tag_definitions, downloaded_models, available_models,
                   tags_file, gui, bg>>

GetUntaggedSpeakers ==
    /\ UNCHANGED <<tts_vars, coqui_speakers, dialog>>
    /\ nops < MaxOps
    /\ \E m \in Models, all_speakers \in SpeakerLists :
          last' = Asked("get_untagged_speakers", m, all_speakers,
                        get_untagged_speakers(Cur, m, all_speakers))
    /\ nops' = nops + 1
    /\ UNCHANGED <<speaker_tags, tag_definitions, downloaded_models, available_models,
                   tags_file, gui, bg>>

NextQueries ==
    \/ Next
    \/ GetUndownloadedModels
    \/ GetUntaggedSpeakers

SpecQueries == Init /\ [][NextQueries]_vars

\* `ret` is `seq` without the entries that Keep rejects, in the order of `seq`.
IsSelection(ret, seq, Keep(_)) ==
    LET kept == {p \in DOMAIN seq : Keep(seq[p])}
    IN  /\ Range(ret) = {seq[p] : p \in kept}
        /\ Len(ret) = Cardinality(kept)
        /\ \A i, j \in DOMAIN ret :
              i < j => \E p, q \in kept : p < q /\ seq[p] = ret[i] /\ seq[q] = ret[j]

(***************************************************************************)
(* C12: get_undownloaded_models returns exactly the available models that  *)
(* are not marked downloaded, in the order of available_models; its result *)
(* is disjoint from get_downloaded_models, and every available model is in *)
(* exactly one of the two results.                                         *)
(***************************************************************************)
C12_UndownloadedModels ==
    [][last'.op = "get_undownloaded_models" =>
          LET NotMarked(model) == ~is_model_downloaded(Cur, model)
          IN  /\ IsSelection(last'.ret, available_models, NotMarked)
              /\ \A downloaded \in get_downloaded_models(Cur) :
                    /\ Range(last'.ret) \cap Range(downloaded) = {}
                    /\ \A model \in Range(available_models) :
                          (model \in Range(last'.ret)) # (model \in Range(downloaded))]_vars

\* The call left out a downloaded model and returned the other, of a list
\* of available models that update_available_models has set.
C12_Witness ==
    /\ last.op = "get_undownloaded_models"
    /\ available_models = <<"m2", "m1">>
    /\ downloaded_models = {"m1"}
    /\ last.ret = <<"m2">>

(***************************************************************************)
(* C13: get_untagged_speakers(model, all_speakers) returns, in the order   *)
(* given, exactly the speakers of all_speakers for which                   *)
(* get_speaker_tags(model, speaker) is empty; a speaker whose tags were    *)
(* all removed again counts as untagged, and a speaker is never both in    *)
(* get_tagged_speakers(model) and in the untagged result.                  *)
(***************************************************************************)
C13_UntaggedSpeakers ==
    [][last'.op = "get_untagged_speakers" =>
          LET NoTags(speaker) == get_speaker_tags(Cur, last'.model, speaker) = {}
          IN  /\ IsSelection(last'.ret, last'.all_speakers, NoTags)
              /\ Range(last'.ret) \cap Range(get_tagged_speakers(Cur, last'.model)) = {}]_vars

\* The call returned a speaker the store holds with no tag left, and left out
\* a speaker that has one.
C13_Witness ==
    /\ last.op = "get_untagged_speakers"
    /\ Len(last.all_speakers) = 2
    /\ Len(last.ret) = 1
    /\ last.model \in DOMAIN speaker_tags
    /\ last.ret[1] \in DOMAIN speaker_tags[last.model]
    /\ speaker_tags[last.model][last.ret[1]] = {}

(***************************************************************************)
(* C14: load_speaker_tags never raises; when the file does not exist, or   *)
(* reading or converting it fails, the store ends with speaker_tags,       *)
(* tag_definitions, downloaded_models and available_models all empty: no   *)
(* partially converted data and no data the store held before remains.     *)
(***************************************************************************)
\* The file is missing, is not JSON, or holds a null the conversion trips on.
LoadFails(file) == file.kind \in {"absent", "corrupt"} \/ file \in NullFiles

C14_LoadFailureEmptiesStore ==
    IsLoad(last) =>
        /\ last.ret = "None"
        /\ LoadFails(tags_file) => Cur = EmptyStore

\* load_speaker_tags was called, after another call, with a file whose
\* conversion raises after it has converted a part, and left the store empty.
C14_Witness ==
    /\ last.op = "load_speaker_tags"
    /\ nops = 2
    /\ tags_file \in NullFiles
    /\ Converted(EmptyStore, tags_file).store # EmptyStore
    /\ Cur = EmptyStore

(***************************************************************************)
(* TTSService (gui/services/tts_service.py).  The TTS library is the       *)
(* environment: constructing an engine, listing the models and             *)
(* tts_to_file each return or raise, and tts_to_file writes the output     *)
(* file or not.  Each method is the service it leaves and the pair it       *)
(* returns.                                                                 *)
(***************************************************************************)
MaxCalls == 3

\* The model names the library knows.
LibraryModels == {"tts_models/en/a", "tts_models/multilingual/b", "tts_models/de/c"}

\* m.startswith('tts_models/en/') or m.startswith('tts_models/multilingual/')
IsEnglishOrMultilingual(m) == m \in {"tts_models/en/a", "tts_models/multilingual/b"}

\* The lists TTS().list_models() may return.
LibraryLists ==
    {<<>>, <<"tts_models/de/c", "tts_models/en/a">>,
     <<"tts_models/multilingual/b", "tts_models/de/c", "tts_models/en/a">>}

\* What the library does when it is called: it returns, or raises.
LibraryOutcomes == {"returns", "raises"}

\* What tts_to_file does: it writes the file, returns without writing, or raises.
EngineOutcomes == {"writes", "returns", "raises"}

\* str(e) of the exception the library raises.
ErrorText == "boom"

Service(engine, model) == [tts_engine |-> engine, current_model |-> model]

\* A returned value: the pair (success, payload), or None.  A payload that is
\* a string is written [message |-> string], one that is a list
\* [models |-> list]; one that is a dict is the dict.
Pair(success, payload) == [kind |-> "pair", success |-> success, payload |-> payload]
Message(text) == [message |-> text]
ReturnsNone == [kind |-> "None", success |-> FALSE, payload |-> EmptyDict]

TTSResult(service, success, payload, engine) ==
    [service |-> service, ret |-> Pair(success, payload), engine |-> engine]

load_model(service, model_name, library) ==
    IF library = "raises"
    THEN TTSResult(service, FALSE, Message("Error loading model: " \o ErrorText),
                   "not invoked")
    ELSE TTSResult(Service(model_name, model_name), TRUE,
                   Message("Model loaded successfully"), "not invoked")

\* kwargs of tts_to_file: speaker and language only when they are given.
SynthesisArgs(text, output_path, speaker, language, speed) ==
    [text |-> text, file_path |-> output_path, speed |-> speed]
    @@ (IF speaker # "" THEN [speaker |-> speaker] ELSE EmptyDict)
    @@ (IF language # "" THEN [language |-> language] ELSE EmptyDict)

\* synthesize_text past the check of tts_engine; exists_before and exists_after
\* say whether the output file exists before and after tts_to_file.
Synthesize(service, engine, exists_before, synthesis_time, file_size_mb) ==
    IF service.tts_engine = "None"
    THEN TTSResult(service, FALSE,
                   Message("Synthesis failed: 'NoneType' object has no attribute 'tts_to_file'"),
                   "not invoked")
    ELSE IF engine = "raises"
    THEN TTSResult(service, FALSE, Message("Synthesis failed: " \o ErrorText), "raised")
    ELSE IF engine = "writes" \/ exists_before
    THEN TTSResult(service, TRUE,
                   [synthesis_time |-> synthesis_time,
                    file_size_mb |-> file_size_mb,
                    synthesis_speed |-> IF synthesis_time > 0
                                        THEN file_size_mb \div synthesis_time ELSE 0],
                   "returned")
    ELSE TTSResult(service, FALSE, Message("Audio file was not created"), "returned")

\* A synthesize_text without "if not self.tts_engine".
synthesize_text_unchecked(service, engine, exists_before, synthesis_time, file_size_mb) ==
    Synthesize(service, engine, exists_before, synthesis_time, file_size_mb)

synthesize_text(service, engine, exists_before, synthesis_time, file_size_mb) ==
    IF service.tts_engine = "None"
    THEN TTSResult(service, FALSE, Message("No TTS engine loaded"), "not invoked")
    ELSE Synthesize(service, engine, exists_before, synthesis_time, file_size_mb)

\* speakers and languages are the lists getattr finds on the temporary engine.
get_model_info(service, model_name, library, speakers, languages) ==
    IF library = "raises"
    THEN TTSResult(service, FALSE, Message("Error getting model info: " \o ErrorText),
                   "not invoked")
    ELSE TTSResult(service, TRUE,
                   [speakers |-> speakers, languages |-> languages,
                    model_name |-> model_name],
                   "not invoked")

list_available_models(service, library, models) ==
    IF library = "raises"
    THEN TTSResult(service, FALSE, Message("Error listing models: " \o ErrorText),
                   "not invoked")
    ELSE TTSResult(service, TRUE, [models |-> SelectSeq(models, IsEnglishOrMultilingual)],
                   "not invoked")

cleanup(service) ==
    [service |-> Service("None", "None"), ret |-> ReturnsNone, engine |-> "not invoked"]

\* A call on the TTSService: its name, its arguments, the pair it returned,
\* what became of the engine, and `history`: "new" before the first
\* successful load_model, "loaded" after one, "cleaned" after a cleanup that
\* followed one.
TTSCalled(op, args, r, history) ==
    [op |-> op, args |-> args, ret |-> r.ret, engine |-> r.engine, history |-> history]

TTSBecomes(op, args, r) ==
    /\ tts_engine' = r.service.tts_engine
    /\ current_model' = r.service.current_model
    /\ last' = TTSCalled(op, args, r,
                         IF op = "load_model" /\ r.ret.success THEN "loaded"
                         ELSE IF op = "cleanup" /\ last.history = "loaded" THEN "cleaned"
                         ELSE last.history)
    /\ nops' = nops + 1
    /\ UNCHANGED <<speaker_tags, tag_definitions, downloaded_models, available_models,
                   tags_file, gui, bg, coqui_speakers, dialog>>

CurService == Service(tts_engine, current_model)

\* TTSService(): no engine; a file of an earlier run may be at the output path.
InitTTS ==
    /\ tags_file = NoFile
    /\ speaker_tags = EmptyDict
    /\ tag_definitions = EmptyDict
    /\ downloaded_models = {}
    /\ available_models = <<>>
    /\ gui = Thread("idle", "-", EmptyDict)
    /\ bg = Thread("none", "-", EmptyDict)
    /\ coqui_speakers = <<>>
    /\ dialog = NoDialog
    /\ tts_engine = "None"
    /\ current_model = "None"
    /\ output_file \in BOOLEAN
    /\ nops = 0
    /\ last = [op |-> "__init__", args |-> EmptyDict, ret |-> ReturnsNone,
               engine |-> "not invoked", history |-> "new"]

TtsLoadModel ==
    /\ nops < MaxCalls
    /\ \E model_name \in {"tts_models/en/a", "tts_models/de/c"}, library \in LibraryOutcomes :
          TTSBecomes("load_model", [model_name |-> model_name],
                     load_model(CurService, model_name, library))
    /\ UNCHANGED output_file

TtsSynthesizeText ==
    /\ nops < MaxCalls
    /\ \E speaker \in {"", "s1"}, language \in {"", "en"}, engine \in EngineOutcomes,
          synthesis_time \in {0, 1} :
          LET r == synthesize_text(CurService, engine, output_file, synthesis_time, 2)
          IN  /\ TTSBecomes("synthesize_text",
                            SynthesisArgs("hello", "out.wav", speaker, language, 1), r)
              /\ output_file' = (output_file \/ (r.engine = "returned" /\ engine = "writes"))

TtsGetModelInfo ==
    /\ nops < MaxCalls
    /\ \E model_name \in {"tts_models/en/a"}, library \in LibraryOutcomes,
          speakers \in {<<"s1">>, <<"s1", "s2">>} :
          TTSBecomes("get_model_info", [model_name |-> model_name],
                     get_model_info(CurService, model_name, library, speakers, <<"en">>))
    /\ UNCHANGED output_file

TtsListAvailableModels ==
    /\ nops < MaxCalls
    /\ \E library \in LibraryOutcomes, models \in LibraryLists :
          TTSBecomes("list_available_models", EmptyDict,
                     list_available_models(CurService, library, models))
    /\ UNCHANGED output_file

TtsCleanup ==
    /\ nops < MaxCalls
    /\ TTSBecomes("cleanup", EmptyDict, cleanup(CurService))
    /\ UNCHANGED output_file

NextTTS ==
    \/ TtsLoadModel
    \/ TtsSynthesizeText
    \/ TtsGetModelInfo
    \/ TtsListAvailableModels
    \/ TtsCleanup

SpecTTS == InitTTS /\ [][NextTTS]_vars

(***************************************************************************)
(* C15: load_model, synthesize_text, get_model_info and                    *)
(* list_available_models never raise and return a (success, payload)      *)
(* pair; synthesize_text returns (False, "No TTS engine loaded") without   *)
(* invoking any engine whenever no model has been loaded or cleanup was    *)
(* called since the last successful load, and returns (False, "Audio file  *)
(* was not created") when the engine ran but the output file does not      *)
(* exist.                                                                   *)
(***************************************************************************)
C15_FailuresAsValues ==
    [][/\ last'.op \in {"load_model", "synthesize_text", "get_model_info",
                        "list_available_models"} =>
              /\ last'.ret.kind = "pair"
              /\ last'.ret.success \in BOOLEAN
       /\ (last'.op = "synthesize_text" /\ last.history \in {"new", "cleaned"}) =>
              /\ last'.ret = Pair(FALSE, Message("No TTS engine loaded"))
              /\ last'.engine = "not invoked"
       /\ (last'.op = "synthesize_text" /\ last'.engine = "returned" /\ ~output_file') =>
              last'.ret = Pair(FALSE, Message("Audio file was not created"))]_vars

\* synthesize_text was called after a model was loaded and cleanup was called,
\* and reported that no engine is loaded.
C15_Witness ==
    /\ last.op = "synthesize_text"
    /\ last.history = "cleaned"
    /\ last.ret = Pair(FALSE, Message("No TTS engine loaded"))

(***************************************************************************)
(* The Speaker Tag Management dialog (gui/components/speaker_tag_dialog.py) *)
(* and the handler of the main window that opens it.                        *)
(***************************************************************************)
MaxClicks == 4

\* SpeakerTagDialog.__init__: result = False, the window and its widgets are
\* created, and load_data fills the tree: populate_speakers_tree calls
\* speaker_service.get_speaker_rating for the first speaker, a method
\* SpeakerService does not have, so the constructor raises AttributeError with
\* the window on screen, its tree empty, and grab_set not reached.  It returns
\* without waiting for the window in any case.
SpeakerTagDialogInit(speakers) ==
    [dialog |-> [shown |-> TRUE, result |-> FALSE],
     ret |-> IF speakers # <<>> THEN "AttributeError" ELSE "None"]

\* on_model_change and its load_model_info run to the end for a model that is
\* marked downloaded: mark_model_downloaded returns False, nothing is saved,
\* and coqui_speakers becomes the speakers of the model, or the model name.
GuiSelectLoadedModel ==
    /\ nops < MaxClicks
    /\ gui.pc = "idle"
    /\ bg.pc \in {"none", "done"}
    /\ \E m \in Models \cap downloaded_models :
          /\ bg' = Thread("done", m, EmptyDict)
          /\ coqui_speakers' \in {<<"s1", "s2">>, <<m>>}
          /\ last' = Called("mark_model_downloaded", m, "-", "-",
                            mark_model_downloaded(Cur, m).ret)
    /\ nops' = nops + 1
    /\ UNCHANGED <<speaker_tags, tag_definitions, downloaded_models, available_models,
                   tags_file, gui, tts_vars, dialog>>

\* open_speaker_tag_dialog: the dialog is constructed, and save_speaker_tags
\* follows when the constructor returned and dialog.result is True.
GuiOpenSpeakerTagDialog ==
    /\ nops < MaxClicks
    /\ gui.pc = "idle"
    /\ ~dialog.shown
    /\ coqui_speakers # <<>>
    /\ LET r == SpeakerTagDialogInit(coqui_speakers)
       IN  /\ dialog' = r.dialog
           /\ gui' = IF r.ret = "None" /\ r.dialog.result
                     THEN Thread("save", "-", EmptyDict) ELSE Idle
           /\ last' = Called("open_speaker_tag_dialog", selected_model, "-", "-", r.ret)
    /\ nops' = nops + 1
    /\ UNCHANGED <<speaker_tags, tag_definitions, downloaded_models, available_models,
                   tags_file, bg, tts_vars, coqui_speakers>>

\* "Create Tag Definition" in the dialog, for a tag name that does not exist.
\* (The tree being empty, no speaker can be selected, and the buttons that tag
\* a speaker only warn.)
DialogAddTagDefinition ==
    /\ nops < MaxClicks
    /\ gui.pc = "idle"
    /\ dialog.shown
    /\ \E t \in Tags \ get_all_tags(Cur) :
          Becomes(add_tag_definition(Cur, t, DefaultDescription(t), DefaultColor),
                  "add_tag_definition", "-", "-", t)
    /\ UNCHANGED <<tags_file, gui, bg, tts_vars, coqui_speakers, dialog>>

\* save_changes: result = True and the window is destroyed.
DialogSaveChanges ==
    /\ nops < MaxClicks
    /\ gui.pc = "idle"
    /\ dialog.shown
    /\ dialog' = [shown |-> FALSE, result |-> TRUE]
    /\ last' = Called("save_changes", "-", "-", "-", "None")
    /\ nops' = nops + 1
    /\ UNCHANGED <<speaker_tags, tag_definitions, downloaded_models, available_models,
                   tags_file, gui, bg, tts_vars, coqui_speakers>>

\* cancel: result = False and the window is destroyed.
DialogCancel ==
    /\ nops < MaxClicks
    /\ gui.pc = "idle"
    /\ dialog.shown
    /\ dialog' = [shown |-> FALSE, result |-> FALSE]
    /\ last' = Called("cancel", "-", "-", "-", "None")
    /\ nops' = nops + 1
    /\ UNCHANGED <<speaker_tags, tag_definitions, downloaded_models, available_models,
                   tags_file, gui, bg, tts_vars, coqui_speakers>>

NextDialog ==
    \/ GuiSelectLoadedModel
    \/ GuiOpenSpeakerTagDialog
    \/ DialogAddTagDefinition
    \/ DialogSaveChanges
    \/ DialogCancel
    \/ GuiQuickAddTag
    \/ GuiQuickRemoveTag
    \/ GuiSaveBuild
    \/ GuiSaveWrite

SpecDialog == InitThreads /\ [][NextDialog]_vars

\* The file holds every tag definition of the store, as save_speaker_tags
\* writes it.
FileReflectsStore ==
    /\ tags_file.kind = "json"
    /\ tags_file.data["_tags"] =
          [t \in DOMAIN tag_definitions |-> SavedTag(t, tag_definitions[t])]

(***************************************************************************)
(* C16: when the user edits tags in the Speaker Tag Management dialog and  *)
(* then presses Save Changes, the main window calls save_speaker_tags, so  *)
(* that the file reflects the edits: once the dialog is closed with result *)
(* True and the main window has no handler running, the file holds the     *)
(* tag definitions of the store.                                           *)
(***************************************************************************)
C16_SaveChangesSaves ==
    (dialog.result /\ ~dialog.shown /\ gui.pc = "idle") => FileReflectsStore

====
